---- MODULE Spec2Model ----
(***************************************************************************)
(* HelpDesk Pro: the SLA time engine (src/desktop.py) and the ticket       *)
(* handlers that feed it (src/main.py).                                    *)
(*                                                                         *)
(* An instant is a whole number of seconds since Monday 00:00:00 of week 0 *)
(* (datetime with microsecond = 0).  A duration in hours is kept as the    *)
(* number of seconds it spans (hours * 3600), so 1.5 h is 5400 and one     *)
(* minute is 60: the float arithmetic of the source is exact rational      *)
(* arithmetic here.  Rates and averages, rounded to two decimals in the    *)
(* source, are kept in hundredths; no half-way case arises for the inputs  *)
(* used, so the rounding mode does not matter.                             *)
(*                                                                         *)
(* A handler runs as one step per transaction it commits: create_ticket    *)
(* commits twice and is two steps, every other handler is one.  Rows come  *)
(* back from a query in id order.                                          *)
(***************************************************************************)
EXTENDS Integers, Sequences, FiniteSets, TLC

VARIABLES
    \* ---- one call of add_business_hours (src/desktop.py:10-43)
    start_time,          \* argument
    hours,               \* argument, in seconds of duration
    current_time,        \* local
    remaining_hours,     \* local, in seconds of duration
    hours_left_today,    \* local, in seconds; NULL until first computed
    pc,                  \* "loop" | "done"
    result,              \* the returned instant; NULL before the return
    raised,              \* the exception the call raised; "none" if it raised none
    \* ---- the ticket store and its handlers (src/main.py, src/desktop.py:45-161)
    now,                 \* datetime.utcnow()
    tickets,             \* the committed rows of table tickets, by id (1..Len)
    writes,              \* how many updates and escalations have been committed
    creating,            \* create_ticket calls between their two commits: the db_ticket each holds
    resp                 \* what the last step answered, if it was a read or a refusal;
                         \* NoResponse after a commit or a step of the clock

calvars == <<start_time, hours, current_time, remaining_hours, hours_left_today, pc, result, raised>>
sysvars == <<now, tickets, writes, creating, resp>>
vars == <<calvars, sysvars>>

\* None / SQL NULL: no instant is negative
NULL == 0 - 1

\* ------------------------------------------------------------------ units
SecondsPerMinute == 60
SecondsPerHour   == 60 * SecondsPerMinute
SecondsPerDay    == 24 * SecondsPerHour
DaysPerWeek      == 7

Min(a, b) == IF a < b THEN a ELSE b
Max(a, b) == IF a > b THEN a ELSE b

\* datetime accessors
DayNumber(t) == t \div SecondsPerDay
Weekday(t)   == DayNumber(t) % DaysPerWeek            \* Monday = 0 ... Sunday = 6
TimeOfDay(t) == t % SecondsPerDay
Hour(t)      == TimeOfDay(t) \div SecondsPerHour
Minute(t)    == (t % SecondsPerHour) \div SecondsPerMinute
Second(t)    == t % SecondsPerMinute

\* ------------------------------------------------- program constants
FirstWeekendDay == 5
OpeningHour     == 9
ClosingHour     == 18

\* ------------------------------------------------------------ bounds
MaxDay == 6

\* -------------------------------------------- add_business_hours, by parts
\* current_time.replace(hour=9, minute=0, second=0, microsecond=0)
ReplaceNine(t) == DayNumber(t) * SecondsPerDay + OpeningHour * SecondsPerHour

\* current_time += timedelta(days=1); current_time = current_time.replace(hour=9, ...)
NextDayAtNine(t) == ReplaceNine(t + SecondsPerDay)

\* (a variant with >= for >)
LoopConditionOrEqual(rem) == rem >= 0
\* while remaining_hours > 0
LoopCondition(rem) == rem > 0

\* if current_time.weekday() >= 5
IsWeekend(t) == Weekday(t) >= FirstWeekendDay

\* (a variant with > for >=)
DayIsOverStrict(t) == Hour(t) > ClosingHour
\* elif current_time.hour >= 18
DayIsOver(t) == Hour(t) >= ClosingHour

\* if current_time.hour < 9: current_time = current_time.replace(hour=9, ...)
SnapToOpening(t) == IF Hour(t) < OpeningHour THEN ReplaceNine(t) ELSE t

\* hours_left_today = 18 - current_time.hour - (current_time.minute / 60.0)
HoursLeftToday(t) ==
    ClosingHour * SecondsPerHour - Hour(t) * SecondsPerHour - Minute(t) * SecondsPerMinute

\* The function as a whole, for its callers.
RECURSIVE add_business_hours(_, _)
add_business_hours(t, rem) ==
    IF ~LoopCondition(rem) THEN t
    ELSE IF IsWeekend(t) THEN add_business_hours(NextDayAtNine(t), rem)
    ELSE IF DayIsOver(t) THEN add_business_hours(NextDayAtNine(t), rem)
    ELSE LET c == SnapToOpening(t)
             left == HoursLeftToday(c)
         IN  IF rem <= left THEN c + rem
             ELSE add_business_hours(NextDayAtNine(c), rem - left)

\* ---------------------------------------------------- inputs of the call
MinuteInputs == {0, 30, 59}
SecondInputs == {0, 30}
StartInputs ==
    { d * SecondsPerDay + h * SecondsPerHour + m * SecondsPerMinute + s :
        d \in 0..MaxDay, h \in 0..23, m \in MinuteInputs, s \in SecondInputs }
\* -1 h, 0, 1 min, 30 min, 1 h, 2 h, 9 h, 20 h
HoursInputs ==
    { -SecondsPerHour, 0, SecondsPerMinute, 30 * SecondsPerMinute, SecondsPerHour,
      2 * SecondsPerHour, 9 * SecondsPerHour, 20 * SecondsPerHour }

\* The ticket store before any request: the clock at Monday 09:00, no rows.
InitialNow == OpeningHour * SecondsPerHour
NoResponse == [op |-> "none"]
IdleSys ==
    /\ now = InitialNow
    /\ tickets = <<>>
    /\ writes = 0
    /\ creating = {}
    /\ resp = NoResponse

InitCal ==
    /\ start_time \in StartInputs
    /\ hours \in HoursInputs
    /\ current_time = start_time
    /\ remaining_hours = hours
    /\ hours_left_today = NULL
    /\ pc = "loop"
    /\ result = NULL
    /\ raised = "none"
    /\ IdleSys

\* lines 17-20: a weekend day is skipped
SkipWeekend ==
    /\ pc = "loop"
    /\ LoopCondition(remaining_hours)
    /\ IsWeekend(current_time)
    /\ current_time' = NextDayAtNine(current_time)
    /\ UNCHANGED <<start_time, hours, remaining_hours, hours_left_today, pc, result, raised>>
    /\ UNCHANGED sysvars

\* lines 25-28: at or after 18:00 the day is over
SkipEvening ==
    /\ pc = "loop"
    /\ LoopCondition(remaining_hours)
    /\ ~IsWeekend(current_time)
    /\ DayIsOver(current_time)
    /\ current_time' = NextDayAtNine(current_time)
    /\ UNCHANGED <<start_time, hours, remaining_hours, hours_left_today, pc, result, raised>>
    /\ UNCHANGED sysvars

\* lines 23-24, 31, 33-36: the rest fits into today
FinishToday ==
    /\ pc = "loop"
    /\ LoopCondition(remaining_hours)
    /\ ~IsWeekend(current_time)
    /\ ~DayIsOver(current_time)
    /\ LET c == SnapToOpening(current_time)
       IN  /\ remaining_hours <= HoursLeftToday(c)
           /\ hours_left_today' = HoursLeftToday(c)
           /\ current_time' = c + remaining_hours
           /\ remaining_hours' = 0
    /\ UNCHANGED <<start_time, hours, pc, result, raised>>
    /\ UNCHANGED sysvars

\* lines 23-24, 31, 37-41: today is used up, the rest goes to tomorrow
ContinueTomorrow ==
    /\ pc = "loop"
    /\ LoopCondition(remaining_hours)
    /\ ~IsWeekend(current_time)
    /\ ~DayIsOver(current_time)
    /\ LET c == SnapToOpening(current_time)
       IN  /\ remaining_hours > HoursLeftToday(c)
           /\ hours_left_today' = HoursLeftToday(c)
           /\ remaining_hours' = remaining_hours - HoursLeftToday(c)
           /\ current_time' = NextDayAtNine(c)
    /\ UNCHANGED <<start_time, hours, pc, result, raised>>
    /\ UNCHANGED sysvars

\* line 43: return current_time
Return ==
    /\ pc = "loop"
    /\ ~LoopCondition(remaining_hours)
    /\ pc' = "done"
    /\ result' = current_time
    /\ UNCHANGED <<start_time, hours, current_time, remaining_hours, hours_left_today, raised>>
    /\ UNCHANGED sysvars

NextCal == SkipWeekend \/ SkipEvening \/ FinishToday \/ ContinueTomorrow \/ Return

\* A call that has started keeps running: the loop is weakly fair.
SpecCal == InitCal /\ [][NextCal]_vars /\ WF_vars(NextCal)

\* =====================================================================
\* The ticket store and its handlers
\* =====================================================================
\* A row of table tickets carries the columns the handlers below read or
\* write for SLA tracking: status, priority, category, the customer's tier
\* (ticket.customer.tier, 'standard' without a customer), created_at,
\* first_response_at, resolved_at, first_response_due, resolution_due.

MaxTickets == 2
MaxClockHours == 2
MaxWrites == 2

\* The clock visits the full hours after InitialNow and the second after each.
NextSecond(t) == t + 1
NextFullHour(t) == (t \div SecondsPerHour + 1) * SecondsPerHour

\* ---- services.sla_monitor.SLAMonitor.calculate_sla_targets (not in src/)
\* (customer tier, priority) -> (first-response hours, resolution hours); a
\* combination without an entry resolves to the default pair 4 h / 24 h.
DefaultTargetHours == [first_response_hours |-> 4, resolution_hours |-> 24]
SLATargetLookup(tier, priority) ==
    IF tier = "enterprise" /\ priority = "critical"
    THEN [first_response_hours |-> 1, resolution_hours |-> 2]
    ELSE DefaultTargetHours

calculate_sla_targets(db_ticket) ==
    LET target == SLATargetLookup(db_ticket.customer_tier, db_ticket.priority)
    IN  [first_response |->
            add_business_hours(db_ticket.created_at, target.first_response_hours * SecondsPerHour),
         resolution |->
            add_business_hours(db_ticket.created_at, target.resolution_hours * SecondsPerHour)]

\* ---- escalate_priority (src/main.py:322-328)
priority_levels == <<"low", "medium", "high", "critical", "emergency">>
IndexOf(p) == CHOOSE i \in 1..Len(priority_levels) : priority_levels[i] = p
escalate_priority(current_priority) ==
    LET current_index == IndexOf(current_priority)
    IN  IF current_index < Len(priority_levels)
        THEN priority_levels[current_index + 1]
        ELSE current_priority

\* ---- request inputs
\* what ticket_classifier.classify_ticket and the customer record yield
CreateInputs ==
    { [priority |-> "critical", category |-> "technical", customer_tier |-> "enterprise"],
      [priority |-> "low", category |-> "billing", customer_tier |-> "standard"] }
TicketIds == 1..MaxTickets
\* schemas.TicketUpdate (not in src/): the field the handler reads by name
Statuses == {"open", "in_progress", "resolved", "closed"}
TicketUpdateInputs == [status : Statuses]

\* ---- create_ticket (src/main.py:51-110)
\* lines 67-86: the row is inserted and committed without its due-dates
CreateInsert(inp) ==
    /\ Len(tickets) < MaxTickets
    /\ LET db_ticket == [status |-> "open",
                         priority |-> inp.priority,
                         category |-> inp.category,
                         customer_tier |-> inp.customer_tier,
                         created_at |-> now,
                         first_response_at |-> NULL,
                         resolved_at |-> NULL,
                         first_response_due |-> NULL,
                         resolution_due |-> NULL]
       IN  /\ tickets' = Append(tickets, db_ticket)
           /\ creating' = creating \cup {[id |-> Len(tickets) + 1, db_ticket |-> db_ticket]}
    /\ resp' = NoResponse
    /\ UNCHANGED <<now, writes>>

\* lines 88-110: the due-dates are computed from the refreshed db_ticket and
\* committed in a second transaction (an UPDATE of the two columns)
CreateSetDueDates(c) ==
    /\ c \in creating
    /\ LET sla_targets == calculate_sla_targets(c.db_ticket)
       IN  tickets' = [tickets EXCEPT ![c.id].first_response_due = sla_targets.first_response,
                                      ![c.id].resolution_due = sla_targets.resolution]
    /\ creating' = creating \ {c}
    /\ resp' = NoResponse
    /\ UNCHANGED <<now, writes>>

\* ---- update_ticket (src/main.py:150-192)
TrackStatusChange(row, original_status, new_status) ==
    IF new_status # original_status
    THEN IF new_status = "in_progress" /\ row.first_response_at = NULL
         THEN [row EXCEPT !.first_response_at = now]
         ELSE IF new_status = "resolved"
              THEN [row EXCEPT !.resolved_at = now]
              ELSE row
    ELSE row

update_ticket(ticket_id, ticket_update) ==
    /\ IF ticket_id \notin DOMAIN tickets
       THEN /\ resp' = [op |-> "update", code |-> 404, ticket_id |-> ticket_id]
            /\ UNCHANGED <<tickets, writes>>
       ELSE LET original_status == tickets[ticket_id].status
                updated == [tickets[ticket_id] EXCEPT !.status = ticket_update.status]
            IN  /\ writes < MaxWrites
                /\ tickets' = [tickets EXCEPT ![ticket_id] =
                                  TrackStatusChange(updated, original_status, ticket_update.status)]
                /\ writes' = writes + 1
                /\ resp' = NoResponse
    /\ UNCHANGED <<now, creating>>

\* ---- escalate_ticket (src/main.py:194-226)
\* (a variant that recomputes the due-dates for the raised priority)
EscalatedRowRecomputed(row) ==
    LET raised_row == [row EXCEPT !.priority = escalate_priority(row.priority)]
        sla_targets == calculate_sla_targets(raised_row)
    IN  [raised_row EXCEPT !.first_response_due = sla_targets.first_response,
                           !.resolution_due = sla_targets.resolution]
\* lines 208-209
EscalatedRow(row) == [row EXCEPT !.priority = escalate_priority(row.priority)]

escalate_ticket(ticket_id) ==
    /\ IF ticket_id \notin DOMAIN tickets
       THEN /\ resp' = [op |-> "escalate", code |-> 404, ticket_id |-> ticket_id]
            /\ UNCHANGED <<tickets, writes>>
       ELSE /\ writes < MaxWrites
            /\ tickets' = [tickets EXCEPT ![ticket_id] = EscalatedRow(tickets[ticket_id])]
            /\ writes' = writes + 1
            /\ resp' = NoResponse
    /\ UNCHANGED <<now, creating>>

\* ---- the clock
TickSecond ==
    /\ Second(now) = 0
    /\ now' = NextSecond(now)
    /\ resp' = NoResponse
    /\ UNCHANGED <<tickets, writes, creating>>

TickHour ==
    /\ NextFullHour(now) <= InitialNow + MaxClockHours * SecondsPerHour
    /\ now' = NextFullHour(now)
    /\ resp' = NoResponse
    /\ UNCHANGED <<tickets, writes, creating>>

\* ---- SLAService.check_sla_breaches (src/desktop.py:46-90)
\* the ids of the rows a query returns, in row order
RowIds == [i \in 1..Len(tickets) |-> i]

\* Ticket.first_response_due < current_time (NULL compares as unknown: no match)
DueBeforeOrAt(due, utcnow) == due # NULL /\ due <= utcnow
DueBefore(due, utcnow) == due # NULL /\ due < utcnow

\* lines 53-59
FirstResponseFilter(row, utcnow) ==
    /\ DueBefore(row.first_response_due, utcnow)
    /\ row.first_response_at = NULL
    /\ row.status # "closed"

\* lines 72-78
ResolutionFilter(row, utcnow) ==
    /\ DueBefore(row.resolution_due, utcnow)
    /\ row.resolved_at = NULL
    /\ row.status # "closed"

BreachRecord(i, type, due, utcnow) ==
    [ticket_id |-> i,
     breach_type |-> type,
     breach_duration |-> utcnow - due,
     priority |-> tickets[i].priority,
     customer_tier |-> tickets[i].customer_tier]

\* (a variant that walks the tickets once and appends each ticket's records
\* together, first_response then resolution)
RECURSIVE RecordsTicketByTicket(_, _)
RecordsTicketByTicket(i, utcnow) ==
    IF i > Len(tickets) THEN <<>>
    ELSE (IF FirstResponseFilter(tickets[i], utcnow)
          THEN <<BreachRecord(i, "first_response", tickets[i].first_response_due, utcnow)>>
          ELSE <<>>)
         \o
         (IF ResolutionFilter(tickets[i], utcnow)
          THEN <<BreachRecord(i, "resolution", tickets[i].resolution_due, utcnow)>>
          ELSE <<>>)
         \o RecordsTicketByTicket(i + 1, utcnow)
BreachedTicketsByTicket(utcnow) == RecordsTicketByTicket(1, utcnow)

\* lines 50-90: the first-response breaches, then the resolution breaches
BreachedTickets(utcnow) ==
    LET first_response_breaches ==
            SelectSeq(RowIds, LAMBDA i : FirstResponseFilter(tickets[i], utcnow))
        resolution_breaches ==
            SelectSeq(RowIds, LAMBDA i : ResolutionFilter(tickets[i], utcnow))
    IN  [k \in 1..Len(first_response_breaches) |->
            BreachRecord(first_response_breaches[k], "first_response",
                         tickets[first_response_breaches[k]].first_response_due, utcnow)]
        \o
        [k \in 1..Len(resolution_breaches) |->
            BreachRecord(resolution_breaches[k], "resolution",
                         tickets[resolution_breaches[k]].resolution_due, utcnow)]

check_sla_breaches ==
    /\ resp' = [op |-> "scan", code |-> 200, at |-> now, breached_tickets |-> BreachedTickets(now)]
    /\ UNCHANGED <<now, tickets, writes, creating>>

\* ---- SLAService.generate_sla_report (src/desktop.py:92-161),
\*      behind GET /api/reports/sla (src/main.py:294-310)
RECURSIVE SumOver(_, _)
SumOver(S, f) ==
    IF S = {} THEN 0
    ELSE LET x == CHOOSE y \in S : TRUE IN f[x] + SumOver(S \ {x}, f)

\* round(num / den, 2), in hundredths (num, den >= 0, den > 0)
RoundHundredths(num, den) == (2 * 100 * num + den) \div (2 * den)

\* lines 95-105
ReportTickets(start_date, end_date, category) ==
    { i \in DOMAIN tickets :
        /\ tickets[i].created_at >= start_date
        /\ tickets[i].created_at <= end_date
        /\ (category # "" => tickets[i].category = category) }

\* lines 119-124, 127-132
Met(at, due) == at # NULL /\ at <= due
\* datetime <= None raises TypeError
ComparesWithNone(row) ==
    \/ row.first_response_at # NULL /\ row.first_response_due = NULL
    \/ row.resolved_at # NULL /\ row.resolution_due = NULL

\* lines 142-143: met / total * 100 if total > 0 else 0, in hundredths of a percent
Compliance(met, total) == IF total > 0 THEN RoundHundredths(met * 100, total) ELSE 0

\* lines 135-139: the mean of the hours taken, in hundredths of an hour
Average(S, f) ==
    IF S # {} THEN RoundHundredths(SumOver(S, f), Cardinality(S) * SecondsPerHour) ELSE 0

SlaReport(start_date, end_date, category) ==
    LET ts == ReportTickets(start_date, end_date, category)
        responded == {i \in ts : tickets[i].first_response_at # NULL}
        resolved == {i \in ts : tickets[i].resolved_at # NULL}
        first_response_met ==
            Cardinality({i \in ts : Met(tickets[i].first_response_at, tickets[i].first_response_due)})
        resolution_met ==
            Cardinality({i \in ts : Met(tickets[i].resolved_at, tickets[i].resolution_due)})
        response_time == [i \in responded |-> tickets[i].first_response_at - tickets[i].created_at]
        resolution_time == [i \in resolved |-> tickets[i].resolved_at - tickets[i].created_at]
    IN  [op |-> "report", code |-> 200,
         start_date |-> start_date, end_date |-> end_date, category |-> category,
         total_tickets |-> Cardinality(ts),
         first_response_sla |->
            [compliance_rate |-> Compliance(first_response_met, Cardinality(ts)),
             tickets_met |-> first_response_met,
             avg_response_time_hours |-> Average(responded, response_time)],
         resolution_sla |->
            [compliance_rate |-> Compliance(resolution_met, Cardinality(ts)),
             tickets_met |-> resolution_met,
             avg_resolution_time_hours |-> Average(resolved, resolution_time)]]

\* (start_date, end_date): the first hour, and the same range inverted
ReportRanges ==
    { <<InitialNow, InitialNow + SecondsPerHour>>, <<InitialNow + SecondsPerHour, InitialNow>> }
ReportCategories == {"", "billing"}

generate_sla_report(start_date, end_date, category) ==
    /\ IF \E i \in ReportTickets(start_date, end_date, category) : ComparesWithNone(tickets[i])
       THEN resp' = [op |-> "report", code |-> 500, error |-> "TypeError",
                     start_date |-> start_date, end_date |-> end_date, category |-> category]
       ELSE resp' = SlaReport(start_date, end_date, category)
    /\ UNCHANGED <<now, tickets, writes, creating>>

\* ---- get_tickets (src/main.py:112-148)
DefaultSkip == 0
DefaultLimit == 50

\* lines 138-145: & binds tighter than |
SlaBreachFilter(row, utcnow) ==
    \/ DueBefore(row.first_response_due, utcnow) /\ row.first_response_at = NULL
    \/ DueBefore(row.resolution_due, utcnow) /\ row.resolved_at = NULL

get_tickets(status, sla_breach, skip, limit) ==
    /\ LET rows == SelectSeq(RowIds, LAMBDA i :
                        /\ (status # "" => tickets[i].status = status)
                        /\ (sla_breach => SlaBreachFilter(tickets[i], now)))
       IN  resp' = [op |-> "list", code |-> 200, at |-> now,
                    status |-> status, sla_breach |-> sla_breach,
                    rows |-> SubSeq(rows, skip + 1, Min(Len(rows), skip + limit))]
    /\ UNCHANGED <<now, tickets, writes, creating>>

\* ---- the system as a whole
IdleCal ==
    /\ start_time = 0
    /\ hours = 0
    /\ current_time = 0
    /\ remaining_hours = 0
    /\ hours_left_today = NULL
    /\ pc = "idle"
    /\ result = NULL
    /\ raised = "none"

Init == IdleCal /\ IdleSys

\* the ticket desk: the requests that commit, the clock, breach scans and listings
Next ==
    \/ \E inp \in CreateInputs : CreateInsert(inp) /\ UNCHANGED calvars
    \/ \E c \in creating : CreateSetDueDates(c) /\ UNCHANGED calvars
    \/ \E id \in TicketIds, u \in TicketUpdateInputs : update_ticket(id, u) /\ UNCHANGED calvars
    \/ \E id \in TicketIds : escalate_ticket(id) /\ UNCHANGED calvars
    \/ TickSecond /\ UNCHANGED calvars
    \/ TickHour /\ UNCHANGED calvars
    \/ check_sla_breaches /\ UNCHANGED calvars
    \/ \E b \in BOOLEAN : get_tickets("", b, DefaultSkip, DefaultLimit) /\ UNCHANGED calvars

Spec == Init /\ [][Next]_vars

\* the reporting endpoint beside the requests that commit
NextReport ==
    \/ \E inp \in CreateInputs : CreateInsert(inp) /\ UNCHANGED calvars
    \/ \E c \in creating : CreateSetDueDates(c) /\ UNCHANGED calvars
    \/ \E id \in TicketIds, u \in TicketUpdateInputs : update_ticket(id, u) /\ UNCHANGED calvars
    \/ \E id \in TicketIds : escalate_ticket(id) /\ UNCHANGED calvars
    \/ TickSecond /\ UNCHANGED calvars
    \/ TickHour /\ UNCHANGED calvars
    \/ \E r \in ReportRanges, c \in ReportCategories :
          generate_sla_report(r[1], r[2], c) /\ UNCHANGED calvars

SpecReport == Init /\ [][NextReport]_vars

\* ------------------------------------------------ measuring working time
\* (the yardstick of the claims: Mon-Fri, 09:00-18:00; no part of the program)
WorkdayLength == (ClosingHour - OpeningHour) * SecondsPerHour

\* Working seconds in [Monday 00:00 of week 0, t)
WorkingSecondsBefore(t) ==
    LET d == DayNumber(t)
        fullDays == (d \div DaysPerWeek) * FirstWeekendDay + Min(d % DaysPerWeek, FirstWeekendDay)
        today == IF IsWeekend(t) THEN 0
                 ELSE Min(Max(TimeOfDay(t) - OpeningHour * SecondsPerHour, 0), WorkdayLength)
    IN  fullDays * WorkdayLength + today

WorkingSecondsBetween(a, b) == WorkingSecondsBefore(b) - WorkingSecondsBefore(a)

\* ------------------------------------------------------------- claims

\* C1: for every start and every hours > 0 the returned instant closes exactly
\* `hours` of working time (Mon-Fri 09:00-18:00) counted from start, and lies on
\* a working weekday no later than 18:00.
C1_ExactWorkingTime ==
    (pc = "done" /\ hours > 0) =>
        /\ WorkingSecondsBetween(start_time, result) = hours
        /\ ~IsWeekend(result)
        /\ TimeOfDay(result) <= ClosingHour * SecondsPerHour

\* Supporting C1: the same statement restricted to starts on a whole minute
\* (second = 0), where the minute-granular hours_left_today is exact.
C1_WholeMinuteStarts ==
    (pc = "done" /\ hours > 0 /\ Second(start_time) = 0) =>
        /\ WorkingSecondsBetween(start_time, result) = hours
        /\ ~IsWeekend(result)
        /\ TimeOfDay(result) <= ClosingHour * SecondsPerHour

\* C4: a negative `hours` is rejected with InvalidArgument and no instant is
\* returned.
C4_NegativeRejected ==
    (pc = "done" /\ hours < 0) => (raised = "InvalidArgument" /\ result = NULL)

\* C8: add_business_hours(t, 0) returns t unchanged, whether t is inside working
\* hours, outside them on a working day, or on a weekend: no snap is applied.
C8_ZeroHoursIdentity ==
    hours = 0 => /\ current_time = start_time
                 /\ pc = "done" => result = start_time

C8_Witness ==
    /\ hours = 0
    /\ pc = "done"
    /\ IsWeekend(start_time)
    /\ result = start_time

\* One iteration of the loop, as the claim describes it: it either leaves a
\* non-working day or time for the next 09:00 with the remaining hours
\* untouched, or takes a positive hours_left_today (or the whole remainder, if
\* smaller) off the remaining hours.
MovesToNextOpening ==
    /\ IsWeekend(current_time) \/ Hour(current_time) >= ClosingHour
    /\ remaining_hours' = remaining_hours
    /\ current_time' > current_time
    /\ TimeOfDay(current_time') = OpeningHour * SecondsPerHour
    /\ hours_left_today' = hours_left_today

ConsumesHours ==
    /\ ~IsWeekend(current_time) /\ Hour(current_time) < ClosingHour
    /\ hours_left_today' > 0
    /\ remaining_hours' = remaining_hours - Min(remaining_hours, hours_left_today')
    /\ remaining_hours' < remaining_hours

\* C10: add_business_hours is total over non-negative hours: the loop ends and an
\* instant is returned; every iteration either moves to the next 09:00 or strictly
\* decreases the remaining hours by a positive hours_left_today; a start at
\* exactly 18:00 counts as day over.
C10_Total ==
    /\ [][pc' = "loop" => (MovesToNextOpening \/ ConsumesHours)]_vars
    /\ [](hours >= 0 => <>(pc = "done" /\ result # NULL))

C10_Witness ==
    /\ pc = "done"
    /\ hours > 0
    /\ ~IsWeekend(start_time)
    /\ TimeOfDay(start_time) = ClosingHour * SecondsPerHour
    /\ result > start_time

\* ---- what a response says about a ticket
Rows == DOMAIN tickets
RecordsOf(i, type) ==
    { k \in DOMAIN resp.breached_tickets :
        /\ resp.breached_tickets[k].ticket_id = i
        /\ resp.breached_tickets[k].breach_type = type }

\* C2: a ticket that is resolved (resolved_at set) or closed never appears in the
\* breach-scan output, with either breach type, whatever its due-dates.
C2_ResolvedNeverScanned ==
    resp.op = "scan" =>
        \A k \in DOMAIN resp.breached_tickets :
            LET row == tickets[resp.breached_tickets[k].ticket_id]
            IN  /\ row.resolved_at = NULL
                /\ row.status \notin {"resolved", "closed"}

\* C3: no request ever reads a persisted ticket whose first_response_due or
\* resolution_due is missing: every row a listing returns carries both.
C3_NeverSeenWithoutDueDates ==
    resp.op = "list" =>
        \A k \in DOMAIN resp.rows :
            /\ tickets[resp.rows[k]].first_response_due # NULL
            /\ tickets[resp.rows[k]].resolution_due # NULL

\* The breach conditions in the words of the data model.
FirstResponseBreached(row, at) ==
    /\ row.first_response_at = NULL
    /\ row.first_response_due # NULL /\ at > row.first_response_due
    /\ row.status # "closed"
ResolutionBreached(row, at) ==
    /\ row.resolved_at = NULL
    /\ row.resolution_due # NULL /\ at > row.resolution_due
    /\ row.status # "closed"

\* C5: for every ticket and every scan instant the scan holds exactly one
\* first_response record for the ticket if first_response_at is null, the scan
\* instant is strictly after first_response_due and the status is not closed, and
\* none otherwise; likewise one resolution record with resolved_at and
\* resolution_due; every record belongs to a ticket. So a due-date equal to the
\* scan instant yields nothing and a closed ticket yields nothing.
C5_BreachExactness ==
    resp.op = "scan" =>
        /\ \A k \in DOMAIN resp.breached_tickets :
              /\ resp.breached_tickets[k].ticket_id \in Rows
              /\ resp.breached_tickets[k].breach_type \in {"first_response", "resolution"}
        /\ \A i \in Rows :
              /\ Cardinality(RecordsOf(i, "first_response")) =
                    (IF FirstResponseBreached(tickets[i], resp.at) THEN 1 ELSE 0)
              /\ Cardinality(RecordsOf(i, "resolution")) =
                    (IF ResolutionBreached(tickets[i], resp.at) THEN 1 ELSE 0)

\* An open ticket one second past its resolution due-date is in the scan once, as
\* a resolution breach, beside a closed ticket past both due-dates that is not.
C5_Witness ==
    /\ resp.op = "scan"
    /\ \E i \in Rows :
          /\ tickets[i].status = "open"
          /\ tickets[i].resolved_at = NULL
          /\ tickets[i].resolution_due = resp.at - 1
          /\ Cardinality(RecordsOf(i, "resolution")) = 1
    /\ \E j \in Rows :
          /\ tickets[j].status = "closed"
          /\ tickets[j].first_response_due # NULL
          /\ tickets[j].first_response_due < resp.at
          /\ tickets[j].resolution_due < resp.at
          /\ RecordsOf(j, "first_response") \cup RecordsOf(j, "resolution") = {}

\* C6: once a ticket's due-dates are set, no step changes them: escalations and
\* status updates leave first_response_due and resolution_due as they were.
C6_DueDatesFrozen ==
    [][\A i \in Rows :
          tickets[i].first_response_due # NULL =>
              /\ i \in DOMAIN tickets'
              /\ tickets'[i].first_response_due = tickets[i].first_response_due
              /\ tickets'[i].resolution_due = tickets[i].resolution_due]_vars

\* A ticket escalated (critical -> emergency) and resolved after its due-dates
\* were set, still carrying the due-dates computed from its creation.
C6_Witness ==
    \E i \in Rows :
        /\ tickets[i].priority = "emergency"
        /\ tickets[i].status = "resolved"
        /\ tickets[i].customer_tier = "enterprise"
        /\ tickets[i].first_response_due = tickets[i].created_at + SecondsPerHour
        /\ tickets[i].resolution_due = tickets[i].created_at + 2 * SecondsPerHour

\* C11: in the breach-scan output every first_response record precedes every
\* resolution record; a ticket that meets both breach conditions has two
\* records, one of each type, and no ticket has two records of one type: each
\* ticket contributes 0, 1 or 2 records.
C11_TypeOrderAndSeparateRecords ==
    resp.op = "scan" =>
        /\ \A k1, k2 \in DOMAIN resp.breached_tickets :
              (/\ resp.breached_tickets[k1].breach_type = "first_response"
               /\ resp.breached_tickets[k2].breach_type = "resolution") => k1 < k2
        /\ \A i \in Rows :
              /\ Cardinality(RecordsOf(i, "first_response")) <= 1
              /\ Cardinality(RecordsOf(i, "resolution")) <= 1
              /\ (FirstResponseBreached(tickets[i], resp.at) /\ ResolutionBreached(tickets[i], resp.at))
                    => /\ Cardinality(RecordsOf(i, "first_response")) = 1
                       /\ Cardinality(RecordsOf(i, "resolution")) = 1
        /\ Len(resp.breached_tickets) =
              Cardinality({i \in Rows : RecordsOf(i, "first_response") # {}})
              + Cardinality({i \in Rows : RecordsOf(i, "resolution") # {}})

\* A scan in which the later ticket breaches both milestones and the earlier one
\* the resolution only: the later ticket's first_response record stands before
\* the earlier ticket's resolution record.
C11_Witness ==
    /\ resp.op = "scan"
    /\ \E i, j \in Rows :
          /\ i < j
          /\ RecordsOf(i, "first_response") = {}
          /\ Cardinality(RecordsOf(i, "resolution")) = 1
          /\ Cardinality(RecordsOf(j, "first_response")) = 1
          /\ Cardinality(RecordsOf(j, "resolution")) = 1
          /\ \A kf \in RecordsOf(j, "first_response"), kr \in RecordsOf(i, "resolution") : kf < kr

Listed(i) == \E k \in DOMAIN resp.rows : resp.rows[k] = i
Scanned(i, at) == \E k \in DOMAIN BreachedTickets(at) : BreachedTickets(at)[k].ticket_id = i

\* C12: the listing with sla_breach=true and no other filter returns a ticket
\* if and only if the breach scan at the same instant over the same tickets
\* yields at least one record for it, that is iff the ticket is
\* first-response-breached or resolution-breached with a status other than
\* closed.
C12_ListingAgreesWithScan ==
    (resp.op = "list" /\ resp.sla_breach /\ resp.status = "") =>
        \A i \in Rows :
            /\ Listed(i) <=> Scanned(i, resp.at)
            /\ Listed(i) <=> (\/ FirstResponseBreached(tickets[i], resp.at)
                              \/ ResolutionBreached(tickets[i], resp.at))

\* The part of C12 that survives: the two listings differ on closed tickets
\* only, and a ticket breaching one milestone alone is listed.
C12_ListingAgreesOnOpenTickets ==
    (resp.op = "list" /\ resp.sla_breach /\ resp.status = "") =>
        \A i \in Rows :
            /\ tickets[i].status # "closed" => (Listed(i) <=> Scanned(i, resp.at))
            /\ Scanned(i, resp.at) => Listed(i)

\* C7: a report asked for an inverted range (start_date later than end_date) is
\* refused with InvalidArgument; no report is produced.
C7_InvertedRangeRejected ==
    (resp.op = "report" /\ resp.start_date > resp.end_date) =>
        (resp.code # 200 /\ resp.error = "InvalidArgument")

\* The filtered set and the met conditions in the words of the report's contract.
Filtered(start_date, end_date, category) ==
    { i \in Rows :
        /\ start_date <= tickets[i].created_at
        /\ tickets[i].created_at <= end_date
        /\ (category = "" \/ tickets[i].category = category) }
FirstResponseMet(row) ==
    /\ row.first_response_at # NULL
    /\ row.first_response_due # NULL
    /\ row.first_response_at <= row.first_response_due
ResolutionMet(row) ==
    /\ row.resolved_at # NULL
    /\ row.resolution_due # NULL
    /\ row.resolved_at <= row.resolution_due

ReportAgrees ==
    LET ts == Filtered(resp.start_date, resp.end_date, resp.category)
        frMet == {i \in ts : FirstResponseMet(tickets[i])}
        resMet == {i \in ts : ResolutionMet(tickets[i])}
    IN  /\ resp.code = 200
        /\ resp.total_tickets = Cardinality(ts)
        /\ resp.first_response_sla.tickets_met = Cardinality(frMet)
        /\ resp.resolution_sla.tickets_met = Cardinality(resMet)
        /\ (ts # {} /\ frMet = ts) => resp.first_response_sla.compliance_rate = 100 * 100
        /\ (ts # {} /\ resMet = ts) => resp.resolution_sla.compliance_rate = 100 * 100
        /\ ts = {} => /\ resp.first_response_sla.compliance_rate = 0
                      /\ resp.resolution_sla.compliance_rate = 0

\* C9: over the filtered ticket set the report's tickets_met for first response is
\* the number of tickets with first_response_at non-null and <= first_response_due
\* (a response at the due instant is met); compliance_rate is 100 when every
\* ticket of the set is met and 0, without error, when the set is empty; likewise
\* for resolution.
C9_ReportCounts ==
    resp.op = "report" => ReportAgrees

\* Supporting C9: the same, for a filtered set in which no responded or resolved
\* ticket is still without its due-dates.
C9_ReportCountsWithDueDates ==
    (/\ resp.op = "report"
     /\ \A i \in Filtered(resp.start_date, resp.end_date, resp.category) :
           ~ComparesWithNone(tickets[i]))
    => ReportAgrees

====
